---- MODULE Spec2Model ----
(***************************************************************************)
(* The viseme keyframe scheduler of the lip-sync add-on: the pose-asset    *)
(* backend (Core/Animator/LIPSYNC2D_PoseAssetsAnimator.py) and the sprite- *)
(* sheet backend (Core/Animator/LIPSYNC_SpriteSheetAnimator.py, the Sps    *)
(* actions), driven by the bake operator                                   *)
(* (Operators/LIPSYNC2D_OT_AnalyzeAudio.py).                               *)
(*                                                                         *)
(* One run: setup, then for every recognized word insert_keyframes, i.e.   *)
(* insert_silences followed by one step of the _insert_on_visemes loop per *)
(* viseme slot.  The recognized words are the input of the run; the model  *)
(* reads them as the driver loop reaches them (a word's timing when        *)
(* insert_keyframes is entered, a slot's viseme when the loop reaches the  *)
(* slot).  Times are rationals with denominator TimeUnit, visemes_parts is *)
(* the rational span / visemes_len, and round() is Python's round-half-to- *)
(* even.                                                                   *)
(***************************************************************************)
EXTENDS Integers, Sequences, FiniteSets, TLC

\* ------------------------------------------------------------------ bounds
MaxThresholdTime == 1  \* thresholds in time units: 0 .. MaxThresholdTime
MaxSlots == 3          \* viseme slots of one run, all words together
MaxFrame == 3          \* word start and end frames: 0 .. MaxFrame
NumFCurves == 2        \* fcurves of the armature action's channelbag
MaxSilTime == 2        \* thresholds of the silence runs: 0 .. MaxSilTime
MaxCloseTime == 4      \* close motion durations of the two-backend runs
MaxInstalls == 2       \* calls of install_model in a run of the download
MaxBake == 2           \* bake start and bake end frames entered by the user

\* ------------------------------------------------- the run's render settings
TimeUnit == 4          \* a time value t stands for t / TimeUnit seconds
Fps == 3               \* scene.render.fps / fps_base

None == "None"

\* ------------------------------------------------------- viseme catalogue
\* enum ids of viseme_items_mpeg4_v2 that the model uses
Visemes == {"sil", "PP", "aa"}

\* str.lower() on the viseme ids
Lower(v) ==
  CASE v = "PP" -> "pp"
    [] v = "aa" -> "aa"
    [] OTHER -> "sil"

\* lip-contact visemes, lower case
UNSKIPPABLE_VISEMES == {"pp"}

\* lower number = higher priority
get_viseme_priority(v) ==
  CASE v = "PP" -> 1
    [] v = "aa" -> 3
    [] OTHER -> 4

\* pose-library actions a viseme property can point to
PoseActions == {"A", "B"}

\* ------------------------------------------------------------- arithmetic
Max(a, b) == IF a >= b THEN a ELSE b
Min(a, b) == IF a <= b THEN a ELSE b

\* Python round(n / d) for d > 0: nearest integer, halves to the even one
Round(n, d) ==
  LET q == n \div d
      r == n % d
  IN  IF 2 * r < d THEN q
      ELSE IF 2 * r > d THEN q + 1
      ELSE IF q % 2 = 0 THEN q ELSE q + 1

\* LIPSYNC2D_TimeConversion.time_to_frame
time_to_frame(t) == Round(t * Fps, TimeUnit)

\* ------------------------------------------------------------------ state
VARIABLES
  pc,                         \* "new" | "word" | "slots" | "done", and the
                              \* same with "sps_" in front in a sprite-sheet run
  props,                      \* obj.lipsync2d_props
  scene_frame_start,          \* LIPSYNC2D_Timeline.get_frame_start()
  \* LIPSYNC2D_PoseAssetsAnimator fields
  silence_frame_threshold,
  in_between_frame_threshold,
  close_motion_duration,
  previous_start,
  previous_viseme,
  inserted_keyframes,
  word_start_frame,
  word_end_frame,
  delay_until_next_word,
  is_last_word,
  is_first_word,
  pose_assets_actions,
  keyframes,                  \* channelbag: fcurve -> set of <<frame, value>>
  \* auto_insert_keyframes / _insert_on_visemes locals
  word_index,
  visemes_data,               \* [visemes_len, parts_num, parts_den]
  viseme_index,
  next_word_frame_start,
  \* history
  last,                       \* the last slot step: input, state before, outcome
  word_log,                   \* slot steps of the current word so far
  slots_done,                 \* slot steps of the run so far
  sil_log,                    \* the last insert_silences call: input and keyed frames
  events,                     \* keyframe events of the current word, in emission order
  \* the addon preferences and LIPSYNC2D_VoskHelper
  current_lang,               \* prefs.current_lang: "none" or a language code
  is_downloading,             \* prefs.is_downloading
  worker_proc,                \* LIPSYNC2D_VoskHelper.worker_proc: None or a worker
  alive,                      \* the download workers that have not exited
  timers,                     \* registered check_worker_finished timers
  model_dir,                  \* the languages with a model directory in the cache
  installs,                   \* history: current_lang at each call of install_model
  \* the bake range
  scene_frame_end,            \* bpy.context.scene.frame_end
  bake_start,                 \* props["lip_sync_2d_bake_start"], or None if never set
  bake_end,                   \* props["lip_sync_2d_bake_end"], or None if never set
  use_bake_range,             \* props.lip_sync_2d_use_bake_range
  frame_start,                \* the operator's self.frame_start, or None
  frame_end,                  \* the operator's self.frame_end, or None
  bake_call,                  \* history: the last setter call since the operator ran
  scene_before                \* history: the scene's range when execute was entered

dl_vars == <<current_lang, is_downloading, worker_proc, alive, timers, model_dir,
             installs>>
bake_vars == <<scene_frame_end, bake_start, bake_end, use_bake_range,
               frame_start, frame_end, bake_call, scene_before>>
\* what a run of an animator leaves alone
cfg_vars == <<props, scene_frame_start, dl_vars, bake_vars>>
anim_vars == <<silence_frame_threshold, in_between_frame_threshold,
               close_motion_duration, previous_start, previous_viseme,
               inserted_keyframes, word_start_frame, word_end_frame,
               delay_until_next_word, is_last_word, is_first_word,
               pose_assets_actions, keyframes>>
loop_vars == <<word_index, visemes_data, viseme_index, next_word_frame_start>>
hist_vars == <<last, word_log, slots_done, sil_log, events>>
vars == <<pc, cfg_vars, anim_vars, loop_vars, hist_vars>>

\* worker_proc = None: no subprocess
NoWorker == [id |-> 0, lang |-> "none"]

\* no call of set_bake_start or set_bake_end yet
NoCall == [setter |-> "none", value |-> 0, crossed |-> FALSE]

NoSilences == [word |-> -1, corrected |-> -1, delay_arg |-> -1, at_end |-> FALSE,
               ends |-> <<>>, first |-> <<>>]

NoStep == [word |-> -1, slot |-> -1, frame |-> -1, viseme |-> None,
           prev_start |-> -1, prev_viseme |-> None, outcome |-> None]

\* ------------------------------------------------------------ pure helpers
\* LIPSYNC2D_PoseAssetsAnimator.get_available_actions
get_available_actions(p) ==
  [v \in {w \in Visemes : p.pose[w] # None} |-> p.pose[v]]

\* variant: the slot offset subtracted
viseme_frame_start_backwards(start, vd, i) == start - Round(i * vd.parts_num, vd.parts_den)

\* viseme_frame_start of slot i
viseme_frame_start(start, vd, i) == start + Round(i * vd.parts_num, vd.parts_den)

\* variant: the end of the word's last slot instead of its start
get_corrected_end_frame_slot_end(start, vd) ==
  start + Round(vd.parts_num * vd.visemes_len, vd.parts_den)

\* variant: the offset of the last slot truncated, not rounded
get_corrected_end_frame_truncated(start, vd) ==
  start + (vd.parts_num * (vd.visemes_len - 1)) \div vd.parts_den

\* get_corrected_end_frame
get_corrected_end_frame(start, vd) ==
  start + Round(vd.parts_num * (vd.visemes_len - 1), vd.parts_den)

has_already_a_kframe(frame) == frame = previous_start

\* variant: the distance test without the test that a keyframe came before
is_prev_kframe_too_close_unguarded(frame) ==
  frame - previous_start <= in_between_frame_threshold

\* variant: strict comparison with the threshold
is_prev_kframe_too_close_strict(frame) ==
  previous_start >= 0 /\ frame - previous_start < in_between_frame_threshold

is_prev_kframe_too_close(frame) ==
  previous_start >= 0 /\ frame - previous_start <= in_between_frame_threshold

\* variant: the comparison of the priorities reversed
should_skip_due_to_priority_conflict_reversed(v, frame) ==
  IF ~has_already_a_kframe(frame) \/ previous_viseme = None
  THEN FALSE
  ELSE get_viseme_priority(v) < get_viseme_priority(previous_viseme)

\* variant: a tie of priorities skips too
should_skip_due_to_priority_conflict_ties(v, frame) ==
  IF ~has_already_a_kframe(frame) \/ previous_viseme = None
  THEN FALSE
  ELSE get_viseme_priority(v) >= get_viseme_priority(previous_viseme)

should_skip_due_to_priority_conflict(v, frame) ==
  IF ~has_already_a_kframe(frame) \/ previous_viseme = None
  THEN FALSE
  ELSE get_viseme_priority(v) > get_viseme_priority(previous_viseme)

\* variant: compares the visemes, not their pose assets
is_redundant_by_viseme(v) ==
  IF previous_viseme = None \/ previous_viseme = "sil"
  THEN FALSE
  ELSE previous_viseme = v

\* variant: no exception for a previous silence viseme
is_redundant_after_sil(v) ==
  IF previous_viseme = None
  THEN FALSE
  ELSE props.pose[previous_viseme] = props.pose[v]

is_redundant(v) ==
  IF previous_viseme = None \/ previous_viseme = "sil"
  THEN FALSE
  ELSE props.pose[previous_viseme] = props.pose[v]

\* variant: prioritize_accuracy ignored
_should_skip_due_to_timing_always(v) == TRUE

_should_skip_due_to_timing(v) ==
  IF props.prioritize_accuracy
  THEN ~(Lower(v) \in UNSKIPPABLE_VISEMES)
  ELSE TRUE

\* variant: redundancy checked before the priority conflict
skip_reason_redundancy_first(v, frame) ==
  IF is_redundant(v) THEN "redundant"
  ELSE IF should_skip_due_to_priority_conflict(v, frame) THEN "priority"
  ELSE IF is_prev_kframe_too_close(frame)
       THEN (IF _should_skip_due_to_timing(v) THEN "spacing" ELSE "emit")
  ELSE "emit"

\* which return of should_skip_keyframe is taken
skip_reason(v, frame) ==
  IF should_skip_due_to_priority_conflict(v, frame) THEN "priority"
  ELSE IF is_redundant(v) THEN "redundant"
  ELSE IF is_prev_kframe_too_close(frame)
       THEN (IF _should_skip_due_to_timing(v) THEN "spacing" ELSE "emit")
  ELSE "emit"

should_skip_keyframe(v, frame) == skip_reason(v, frame) # "emit"

\* variant: a key is added next to the key the frame already has
KeyInsert_keep(points, frame, value) == points \cup {<<frame, value>>}

\* fcurve.keyframe_points.insert(frame, value): replaces the key of that frame
KeyInsert(points, frame, value) ==
  {k \in points : k[1] # frame} \cup {<<frame, value>>}

\* variant: the key lands one frame late
insert_keyframe_points_late(kf, action, frame) ==
  [c \in DOMAIN kf |-> KeyInsert(kf[c], frame + 1, action)]

\* insert_keyframe_points on a channelbag kf: every fcurve gets the pose value
insert_keyframe_points(kf, action, frame) ==
  [c \in DOMAIN kf |-> KeyInsert(kf[c], frame, action)]

RECURSIVE InsertAll(_, _, _)
InsertAll(kf, action, frames) ==
  IF frames = <<>> THEN kf
  ELSE InsertAll(insert_keyframe_points(kf, action, Head(frames)), action, Tail(frames))

\* LIPSYNC2D_DialogInspector.get_next_word_timing: word_frame_start of the word
\* after this one; after the last word the delay to it is 0
get_next_word_timing(last_word, corrected, next) == IF last_word THEN corrected ELSE next

\* int(x / 2) for an integer x: truncation toward zero
IntHalf(x) == IF x >= 0 THEN x \div 2 ELSE -((-x) \div 2)

\* variant: a delay equal to the threshold triggers too
add_sil_at_word_end_non_strict(delay, last_word) ==
  delay >= silence_frame_threshold \/ last_word

\* add_sil_at_word_end of insert_silences (the same in both animators)
add_sil_at_word_end(delay, last_word) == delay > silence_frame_threshold \/ last_word

\* variant: the rest silence without the floor of one frame on the threshold
end_silence_frames_no_floor(corrected, delay, last_word) ==
  LET smooth == corrected
                + Max(1, Min(delay - in_between_frame_threshold, close_motion_duration))
      rest == corrected + delay - in_between_frame_threshold
  IN  IF ~add_sil_at_word_end(delay, last_word) THEN <<>>
      ELSE IF ~last_word THEN <<smooth, rest>>
      ELSE <<corrected + close_motion_duration>>

\* variant: the last word closed like the other words
end_silence_frames_last_as_others(corrected, delay, last_word) ==
  LET smooth == corrected
                + Max(1, Min(delay - in_between_frame_threshold, close_motion_duration))
      rest == corrected + delay - Max(1, in_between_frame_threshold)
  IN  IF ~add_sil_at_word_end(delay, last_word) THEN <<>>
      ELSE <<smooth, rest>>

\* the frames insert_silences keys after the word, in order
end_silence_frames(corrected, delay, last_word) ==
  LET smooth == corrected
                + Max(1, Min(delay - in_between_frame_threshold, close_motion_duration))
      rest == corrected + delay - Max(1, in_between_frame_threshold)
  IN  IF ~add_sil_at_word_end(delay, last_word) THEN <<>>
      ELSE IF ~last_word THEN <<smooth, rest>>
      ELSE <<corrected + close_motion_duration>>

\* variant: the frame before the first word not bounded by the timeline start
first_silence_frames_unbounded(start, first_word) ==
  IF first_word
  THEN <<IntHalf(2 * start - Max(2, close_motion_duration))>>
  ELSE <<>>

\* the frame insert_silences keys before the first word:
\* int(max(frame_start, word_start_frame - max(1, close_motion_duration / 2)))
first_silence_frames(start, first_word) ==
  IF first_word
  THEN <<IntHalf(Max(2 * scene_frame_start, 2 * start - Max(2, close_motion_duration)))>>
  ELSE <<>>

\* variant: insert_silences keys nothing
silence_frames_none(vd, start, delay, last_word, first_word) == <<>>

\* the frames insert_silences keys, in order
silence_frames(vd, start, delay, last_word, first_word) ==
  IF props.pose["sil"] = None THEN <<>>
  ELSE end_silence_frames(get_corrected_end_frame(start, vd), delay, last_word)
         \o first_silence_frames(start, first_word)

\* variant: the frame keyed last by insert_silences becomes previous_start
previous_start_after_silences_tracking(frames) ==
  IF frames = <<>> THEN previous_start ELSE frames[Len(frames)]

\* previous_start when insert_silences returns, having keyed these frames:
\* neither animator's insert_silences assigns it
previous_start_after_silences(frames) == previous_start

\* the events of a sequence of frames
EventsOf(kind, frames) ==
  [i \in 1 .. Len(frames) |-> [kind |-> kind, viseme |-> "sil", frame |-> frames[i]]]

\* ----------------------------------------------- sprite-sheet backend, pure
\* LIPSYNC_SpriteSheetAnimator.is_redundant: returns False, or falls off its
\* end (None) when there is a previous viseme that is not "sil"
sps_is_redundant(v) ==
  IF previous_viseme = None \/ previous_viseme = "sil"
  THEN FALSE
  ELSE FALSE

\* the condition of _insert_on_visemes's continue, by the test that holds first
sps_skip_reason(v, frame) ==
  IF has_already_a_kframe(frame) THEN "has_kframe"
  ELSE IF is_prev_kframe_too_close(frame) THEN "spacing"
  ELSE IF sps_is_redundant(v) THEN "redundant"
  ELSE "emit"

\* the frames LIPSYNC_SpriteSheetAnimator.insert_silences keys after the word
\* on each fcurve, in order: the last word's frame is keyed twice
sps_end_silence_frames(corrected, delay, last_word) ==
  IF ~add_sil_at_word_end(delay, last_word) THEN <<>>
  ELSE IF last_word
       THEN <<corrected + in_between_frame_threshold,
              corrected + in_between_frame_threshold>>
       ELSE <<corrected + in_between_frame_threshold>>

\* variant: the in-between threshold as configured, without the floor
sps_in_between_frames_no_floor(t) == time_to_frame(t)

\* setup_properties of the sprite-sheet animator: the in-between threshold in
\* frames is at least 1
sps_in_between_frames(t) == Max(1, time_to_frame(t))

\* the frame it keys before the first word
sps_first_silence_frames(start, first_word) ==
  IF first_word
  THEN <<Max(scene_frame_start, start - Max(1, in_between_frame_threshold))>>
  ELSE <<>>

\* ------------------------------------------------------------------- Init
\* the viseme_pose properties: an action or None per viseme; the actions are
\* interchangeable, so the first viseme that has one has "A"
PoseConfigs ==
  {p \in [Visemes -> PoseActions \cup {None}] :
     \/ p["sil"] = "A"
     \/ p["sil"] = None /\ p["PP"] = "A"
     \/ p["sil"] = None /\ p["PP"] = None /\ p["aa"] # "B"}

ThresholdTimes == 0 .. MaxThresholdTime

\* the fields after __init__ (the same in both animators)
InitFields ==
  /\ silence_frame_threshold = -1
  /\ in_between_frame_threshold = -1
  /\ close_motion_duration = -1
  /\ previous_start = -1
  /\ previous_viseme = None
  /\ inserted_keyframes = 0
  /\ word_start_frame = -1
  /\ word_end_frame = -1
  /\ delay_until_next_word = -1
  /\ is_last_word = FALSE
  /\ is_first_word = FALSE
  /\ pose_assets_actions = <<>>
  /\ keyframes = [c \in 1 .. NumFCurves |-> {}]
  /\ word_index = 0
  /\ visemes_data = [visemes_len |-> 0, parts_num |-> 0, parts_den |-> 1]
  /\ viseme_index = 0
  /\ next_word_frame_start = -1
  /\ last = NoStep
  /\ word_log = <<>>
  /\ slots_done = 0
  /\ sil_log = NoSilences
  /\ events = <<>>
  /\ current_lang = "none"
  /\ is_downloading = FALSE
  /\ worker_proc = NoWorker
  /\ alive = {}
  /\ timers = 0
  /\ model_dir = {}
  /\ installs = <<>>
  /\ scene_frame_end = MaxFrame
  /\ bake_start = <<>>
  /\ bake_end = <<>>
  /\ use_bake_range = FALSE
  /\ frame_start = <<>>
  /\ frame_end = <<>>
  /\ bake_call = NoCall
  /\ scene_before = <<>>

InitState == pc = "new" /\ InitFields

Init ==
  /\ InitState
  /\ scene_frame_start = 0
  /\ props \in [in_between_threshold : ThresholdTimes,
                sil_threshold : {MaxThresholdTime},
                close_motion_duration : {MaxThresholdTime},
                prioritize_accuracy : BOOLEAN,
                pose : PoseConfigs]

\* a run for the silences: the three thresholds vary, the silence pose is set
\* or not
SilThresholdTimes == 0 .. MaxSilTime

SilPoseConfigs ==
  {[v \in Visemes |-> CASE v = "sil" -> "A" [] v = "PP" -> "B" [] OTHER -> None],
   [v \in Visemes |-> CASE v = "PP" -> "A" [] OTHER -> None]}

InitSil ==
  /\ InitState
  /\ scene_frame_start = 0
  /\ props \in [in_between_threshold : SilThresholdTimes,
                sil_threshold : ThresholdTimes,
                close_motion_duration : SilThresholdTimes,
                prioritize_accuracy : {FALSE},
                pose : SilPoseConfigs]

\* the runs of the scenario: thresholds of 0 frames, or an in-between threshold
\* of 15 frames
InitScenario ==
  /\ InitState
  /\ scene_frame_start = 0
  /\ props \in [in_between_threshold : {0, (15 * TimeUnit) \div Fps},
                sil_threshold : {0},
                close_motion_duration : {0},
                prioritize_accuracy : BOOLEAN,
                pose : PoseConfigs]

\* a sprite-sheet run: lip_sync_2d_sps_in_between_threshold,
\* lip_sync_2d_sps_sil_threshold and a sprite index per viseme (the indexes are
\* interchangeable, so the silence viseme has index 0)
SpriteIndexes == {0, 1}

SpriteConfigs == {m \in [Visemes -> SpriteIndexes] : m["sil"] = 0}

InitSps ==
  /\ pc = "sps_new"
  /\ InitFields
  /\ scene_frame_start = 0
  /\ props \in [sps_in_between_threshold : SilThresholdTimes,
                sps_sil_threshold : {MaxThresholdTime},
                viseme : SpriteConfigs]

\* a pose-asset run next to the sprite-sheet runs: the close motion duration
\* varies
InitPose ==
  /\ InitState
  /\ scene_frame_start = 0
  /\ props \in [in_between_threshold : {0},
                sil_threshold : {MaxThresholdTime},
                close_motion_duration : 0 .. MaxCloseTime,
                prioritize_accuracy : {FALSE},
                pose : SilPoseConfigs]

InitBackends == InitPose \/ InitSps

\* runs with a negative threshold (the FloatProperty definitions set no minimum)
NegThresholdTimes == (-MaxThresholdTime) .. 0

InitNeg ==
  /\ InitFields
  /\ scene_frame_start = 0
  /\ \/ /\ pc = "new"
        /\ props \in [in_between_threshold : NegThresholdTimes,
                      sil_threshold : NegThresholdTimes,
                      close_motion_duration : NegThresholdTimes,
                      prioritize_accuracy : {FALSE},
                      pose : SilPoseConfigs]
        /\ \/ props.in_between_threshold < 0
           \/ props.sil_threshold < 0
           \/ props.close_motion_duration < 0
     \/ /\ pc = "sps_new"
        /\ props \in [sps_in_between_threshold : NegThresholdTimes,
                      sps_sil_threshold : NegThresholdTimes,
                      viseme : SpriteConfigs]
        /\ \/ props.sps_in_between_threshold < 0
           \/ props.sps_sil_threshold < 0

\* ---------------------------------------------------------------- actions
\* setup: setup_properties, then setup_fcurves (pose_assets_actions)
Setup ==
  /\ pc = "new"
  /\ close_motion_duration' = time_to_frame(props.close_motion_duration)
  /\ silence_frame_threshold' = time_to_frame(props.sil_threshold)
  /\ in_between_frame_threshold' = time_to_frame(props.in_between_threshold)
  /\ previous_start' = -1
  /\ previous_viseme' = None
  /\ inserted_keyframes' = 0
  /\ pose_assets_actions' = get_available_actions(props)
  /\ pc' = "word"
  /\ UNCHANGED <<cfg_vars, word_start_frame, word_end_frame, delay_until_next_word,
                 is_last_word, is_first_word, keyframes, loop_vars, hist_vars>>

\* one iteration of auto_insert_keyframes up to the viseme loop of
\* insert_keyframes, for a word of n visemes at frames start .. end followed by
\* a word at frame next: word fields, then insert_silences
InsertKeyframesOf(start, end, next, n, last_word) ==
  LET span == end - start
      gap == next - end
      vd == [visemes_len |-> n, parts_num |-> span, parts_den |-> n]
      corrected == get_corrected_end_frame(start, vd)
      next_start == get_next_word_timing(last_word, corrected, start + span + gap)
      delay_arg == next_start - corrected
      delay == Max(0, delay_arg)
      first_word == word_index = 0
      frames == silence_frames(vd, start, delay, last_word, first_word)
      sil == props.pose["sil"] # None
  IN  /\ visemes_data' = vd
      /\ next_word_frame_start' = next_start
      /\ word_end_frame' = start + span
      /\ word_start_frame' = start
      /\ delay_until_next_word' = delay
      /\ is_last_word' = last_word
      /\ is_first_word' = first_word
      /\ keyframes' = InsertAll(keyframes, props.pose["sil"], frames)
      /\ inserted_keyframes' = inserted_keyframes + NumFCurves * Len(frames)
      /\ sil_log' = [word |-> word_index, corrected |-> corrected,
                     delay_arg |-> delay_arg,
                     at_end |-> add_sil_at_word_end(delay, last_word),
                     ends |-> IF sil THEN end_silence_frames(corrected, delay, last_word)
                              ELSE <<>>,
                     first |-> IF sil THEN first_silence_frames(start, first_word)
                               ELSE <<>>]
      /\ events' = EventsOf("sil", frames)
      /\ previous_start' = previous_start_after_silences(frames)
      /\ viseme_index' = 0
      /\ word_log' = <<>>
      /\ slots_done' = slots_done
      /\ pc' = "slots"
      /\ UNCHANGED <<cfg_vars, silence_frame_threshold, in_between_frame_threshold,
                     close_motion_duration, previous_viseme,
                     pose_assets_actions, word_index, last>>

\* the next word of the run: any word in time order within the bounds
InsertKeyframes ==
  /\ pc = "word"
  /\ \E start \in (IF word_index = 0 THEN 0 .. MaxFrame ELSE {next_word_frame_start}),
        end \in 0 .. MaxFrame, next \in 0 .. MaxFrame,
        n \in 1 .. MaxSlots - slots_done, last_word \in BOOLEAN :
       /\ start <= end /\ end <= next
       /\ (last_word => next = end)
       /\ (n = MaxSlots - slots_done => last_word)
       /\ InsertKeyframesOf(start, end, next, n, last_word)

\* the first word of the scenario: visemes_len = 2, visemes_parts = 12,
\* word_frame_start = 0
ScenarioInsertKeyframes ==
  /\ pc = "word"
  /\ word_index = 0
  /\ \E last_word \in BOOLEAN : InsertKeyframesOf(0, 24, 24, 2, last_word)

\* one iteration of the _insert_on_visemes loop, with the body of the
\* insert_keyframes loop for the yielded item
InsertOnVisemesStep ==
  /\ pc = "slots"
  /\ \E v \in Visemes :
       LET frame == viseme_frame_start(word_start_frame, visemes_data, viseme_index)
           outcome == IF v \notin DOMAIN pose_assets_actions THEN "no_asset"
                      ELSE skip_reason(v, frame)
           step == [word |-> word_index, slot |-> viseme_index, frame |-> frame,
                    viseme |-> v, prev_start |-> previous_start,
                    prev_viseme |-> previous_viseme, outcome |-> outcome]
       IN  /\ last' = step
           /\ word_log' = Append(word_log, step)
           /\ slots_done' = slots_done + 1
           /\ events' = IF outcome = "emit"
                        THEN Append(events, [kind |-> "viseme", viseme |-> v, frame |-> frame])
                        ELSE events
           /\ IF outcome = "emit"
              THEN /\ keyframes' = insert_keyframe_points(keyframes,
                                                          pose_assets_actions[v], frame)
                   /\ inserted_keyframes' = inserted_keyframes + NumFCurves
                   /\ previous_start' = frame
                   /\ previous_viseme' = v
              ELSE UNCHANGED <<keyframes, inserted_keyframes, previous_start,
                               previous_viseme>>
  /\ viseme_index' = viseme_index + 1
  /\ IF viseme_index + 1 < visemes_data.visemes_len
     THEN pc' = "slots" /\ word_index' = word_index
     ELSE IF is_last_word
          THEN pc' = "done" /\ word_index' = word_index
          ELSE pc' = "word" /\ word_index' = word_index + 1
  /\ UNCHANGED <<cfg_vars, silence_frame_threshold, in_between_frame_threshold,
                 close_motion_duration, word_start_frame, word_end_frame,
                 delay_until_next_word, is_last_word, is_first_word,
                 pose_assets_actions, visemes_data, next_word_frame_start, sil_log>>

\* LIPSYNC_SpriteSheetAnimator.setup: setup_animation_properties, then
\* setup_properties
SpsSetup ==
  /\ pc = "sps_new"
  /\ silence_frame_threshold' = time_to_frame(props.sps_sil_threshold)
  /\ in_between_frame_threshold' = sps_in_between_frames(props.sps_in_between_threshold)
  /\ previous_start' = -1
  /\ previous_viseme' = None
  /\ inserted_keyframes' = 0
  /\ pc' = "sps_word"
  /\ UNCHANGED <<cfg_vars, close_motion_duration, word_start_frame, word_end_frame,
                 delay_until_next_word, is_last_word, is_first_word,
                 pose_assets_actions, keyframes, loop_vars, hist_vars>>

\* one iteration of auto_insert_keyframes up to the viseme loop of the
\* sprite-sheet insert_keyframes: word fields, then insert_silences (the key
\* before the first word is not counted in inserted_keyframes)
SpsInsertKeyframes ==
  /\ pc = "sps_word"
  /\ \E start \in (IF word_index = 0 THEN 0 .. MaxFrame ELSE {next_word_frame_start}),
        end \in 0 .. MaxFrame, next \in 0 .. MaxFrame,
        n \in 1 .. MaxSlots - slots_done, last_word \in BOOLEAN :
       LET span == end - start
           vd == [visemes_len |-> n, parts_num |-> span, parts_den |-> n]
           corrected == get_corrected_end_frame(start, vd)
           next_start == get_next_word_timing(last_word, corrected, next)
           delay_arg == next_start - corrected
           delay == Max(0, delay_arg)
           first_word == word_index = 0
           ends == sps_end_silence_frames(corrected, delay, last_word)
           first == sps_first_silence_frames(start, first_word)
       IN  /\ start <= end /\ end <= next
           /\ (last_word => next = end)
           /\ (n = MaxSlots - slots_done => last_word)
           /\ visemes_data' = vd
           /\ next_word_frame_start' = next_start
           /\ word_end_frame' = end
           /\ word_start_frame' = start
           /\ delay_until_next_word' = delay
           /\ is_last_word' = last_word
           /\ is_first_word' = first_word
           /\ keyframes' = InsertAll(keyframes, props.viseme["sil"], ends \o first)
           /\ inserted_keyframes' = inserted_keyframes + NumFCurves * Len(ends)
           /\ sil_log' = [word |-> word_index, corrected |-> corrected,
                          delay_arg |-> delay_arg,
                          at_end |-> add_sil_at_word_end(delay, last_word),
                          ends |-> ends, first |-> first]
           /\ events' = EventsOf("sil", ends \o first)
           /\ previous_start' = previous_start_after_silences(ends \o first)
  /\ viseme_index' = 0
  /\ word_log' = <<>>
  /\ slots_done' = slots_done
  /\ pc' = "sps_slots"
  /\ UNCHANGED <<cfg_vars, silence_frame_threshold, in_between_frame_threshold,
                 close_motion_duration, previous_viseme,
                 pose_assets_actions, word_index, last>>

\* one iteration of the sprite-sheet _insert_on_visemes loop, with the body of
\* the insert_keyframes loop for the yielded item
SpsInsertOnVisemesStep ==
  /\ pc = "sps_slots"
  /\ \E v \in Visemes :
       LET frame == viseme_frame_start(word_start_frame, visemes_data, viseme_index)
           outcome == sps_skip_reason(v, frame)
           step == [word |-> word_index, slot |-> viseme_index, frame |-> frame,
                    viseme |-> v, prev_start |-> previous_start,
                    prev_viseme |-> previous_viseme, outcome |-> outcome]
       IN  /\ last' = step
           /\ word_log' = Append(word_log, step)
           /\ slots_done' = slots_done + 1
           /\ events' = IF outcome = "emit"
                        THEN Append(events, [kind |-> "viseme", viseme |-> v, frame |-> frame])
                        ELSE events
           /\ IF outcome = "emit"
              THEN /\ keyframes' = insert_keyframe_points(keyframes, props.viseme[v], frame)
                   /\ inserted_keyframes' = inserted_keyframes + NumFCurves
                   /\ previous_start' = frame
                   /\ previous_viseme' = v
              ELSE UNCHANGED <<keyframes, inserted_keyframes, previous_start,
                               previous_viseme>>
  /\ viseme_index' = viseme_index + 1
  /\ IF viseme_index + 1 < visemes_data.visemes_len
     THEN pc' = "sps_slots" /\ word_index' = word_index
     ELSE IF is_last_word
          THEN pc' = "sps_done" /\ word_index' = word_index
          ELSE pc' = "sps_word" /\ word_index' = word_index + 1
  /\ UNCHANGED <<cfg_vars, silence_frame_threshold, in_between_frame_threshold,
                 close_motion_duration, word_start_frame, word_end_frame,
                 delay_until_next_word, is_last_word, is_first_word,
                 pose_assets_actions, visemes_data, next_word_frame_start, sil_log>>

Next == Setup \/ InsertKeyframes \/ InsertOnVisemesStep

\* a run of either backend (get_animator picks the animator class)
BackendsNext ==
  \/ Setup \/ InsertKeyframes \/ InsertOnVisemesStep
  \/ SpsSetup \/ SpsInsertKeyframes \/ SpsInsertOnVisemesStep

Spec == Init /\ [][Next]_vars

SpecSil == InitSil /\ [][Next]_vars

SpecBackends == InitBackends /\ [][BackendsNext]_vars

SpecNeg == InitNeg /\ [][BackendsNext]_vars

ScenarioNext == Setup \/ ScenarioInsertKeyframes \/ InsertOnVisemesStep

SpecScenario == InitScenario /\ [][ScenarioNext]_vars

\* a word of the recognizer's result whose end lies before its start:
\* auto_insert_keyframes hands every word to insert_keyframes as it comes
MalformedInsertKeyframes ==
  /\ pc = "word"
  /\ \E start \in (IF word_index = 0 THEN 0 .. MaxFrame ELSE {next_word_frame_start}),
        end \in 0 .. MaxFrame, next \in 0 .. MaxFrame,
        n \in 1 .. MaxSlots - slots_done, last_word \in BOOLEAN :
       /\ end < start /\ start <= next
       /\ (last_word => next = start)
       /\ (n = MaxSlots - slots_done => last_word)
       /\ InsertKeyframesOf(start, end, next, n, last_word)

MalformedNext ==
  Setup \/ InsertKeyframes \/ MalformedInsertKeyframes \/ InsertOnVisemesStep

\* runs whose word list may hold such words
SpecMalformed == InitPose /\ [][MalformedNext]_vars

\* the default of the lip_sync_2d_viseme_<id> properties: no sprite chosen
UnsetSprite == -1

\* sprite-sheet properties where the sprite index of PP or of aa was never set
UnsetSpriteConfigs ==
  {m \in [Visemes -> SpriteIndexes \cup {UnsetSprite}] :
     m["sil"] = 0 /\ (m["PP"] = UnsetSprite \/ m["aa"] = UnsetSprite)}

InitUnmapped ==
  \/ InitPose
  \/ /\ pc = "sps_new"
     /\ InitFields
     /\ scene_frame_start = 0
     /\ props \in [sps_in_between_threshold : ThresholdTimes,
                   sps_sil_threshold : {MaxThresholdTime},
                   viseme : UnsetSpriteConfigs]

\* props[f"lip_sync_2d_viseme_{v}"] in the sprite-sheet _insert_on_visemes for a
\* viseme whose property was never set: the lookup either raises KeyError, which
\* ends the run at this slot (this action), or gives the property's default,
\* and the slot goes on as any other (SpsInsertOnVisemesStep)
SpsLookupRaises ==
  /\ pc = "sps_slots"
  /\ \E v \in Visemes :
       /\ props.viseme[v] = UnsetSprite
       /\ last' = [word |-> word_index, slot |-> viseme_index,
                   frame |-> viseme_frame_start(word_start_frame, visemes_data,
                                                viseme_index),
                   viseme |-> v, prev_start |-> previous_start,
                   prev_viseme |-> previous_viseme, outcome |-> "raised"]
  /\ word_log' = Append(word_log, last')
  /\ pc' = "sps_raised"
  /\ UNCHANGED <<cfg_vars, anim_vars, loop_vars, slots_done, sil_log, events>>

UnmappedNext ==
  \/ Setup \/ InsertKeyframes \/ InsertOnVisemesStep
  \/ SpsSetup \/ SpsInsertKeyframes \/ SpsInsertOnVisemesStep \/ SpsLookupRaises

\* runs of either backend with visemes that have no pose / no sprite index
SpecUnmapped == InitUnmapped /\ [][UnmappedNext]_vars

\* one iteration of auto_insert_keyframes for a word without phonemes:
\* visemes_data has no viseme (visemes_len = 0, visemes_parts = the span over
\* the minimum length 1), insert_keyframes sets the word fields and calls
\* insert_silences, and its viseme loop has nothing to iterate
EmptyWordInsertKeyframes ==
  /\ pc = "word"
  /\ word_index < MaxSlots
  /\ \E start \in (IF word_index = 0 THEN 0 .. MaxFrame ELSE {next_word_frame_start}),
        end \in 0 .. MaxFrame, next \in 0 .. MaxFrame, last_word \in BOOLEAN :
       LET span == end - start
           vd == [visemes_len |-> 0, parts_num |-> span, parts_den |-> 1]
           corrected == get_corrected_end_frame(start, vd)
           next_start == get_next_word_timing(last_word, corrected, next)
           delay_arg == next_start - corrected
           delay == Max(0, delay_arg)
           first_word == word_index = 0
           frames == silence_frames(vd, start, delay, last_word, first_word)
           sil == props.pose["sil"] # None
       IN  /\ start <= end /\ end <= next
           /\ (last_word => next = end)
           /\ visemes_data' = vd
           /\ next_word_frame_start' = next_start
           /\ word_end_frame' = end
           /\ word_start_frame' = start
           /\ delay_until_next_word' = delay
           /\ is_last_word' = last_word
           /\ is_first_word' = first_word
           /\ keyframes' = InsertAll(keyframes, props.pose["sil"], frames)
           /\ inserted_keyframes' = inserted_keyframes + NumFCurves * Len(frames)
           /\ sil_log' = [word |-> word_index, corrected |-> corrected,
                          delay_arg |-> delay_arg,
                          at_end |-> add_sil_at_word_end(delay, last_word),
                          ends |-> IF sil THEN end_silence_frames(corrected, delay, last_word)
                                   ELSE <<>>,
                          first |-> IF sil THEN first_silence_frames(start, first_word)
                                    ELSE <<>>]
           /\ events' = EventsOf("sil", frames)
           /\ previous_start' = previous_start_after_silences(frames)
           /\ pc' = IF last_word THEN "done" ELSE "word"
           /\ word_index' = IF last_word THEN word_index ELSE word_index + 1
  /\ viseme_index' = 0
  /\ word_log' = <<>>
  /\ UNCHANGED <<cfg_vars, silence_frame_threshold, in_between_frame_threshold,
                 close_motion_duration, previous_viseme,
                 pose_assets_actions, slots_done, last>>

EmptyWordNext ==
  Setup \/ InsertKeyframes \/ EmptyWordInsertKeyframes \/ InsertOnVisemesStep

\* runs whose word list may hold words without phonemes
SpecEmptyWord == InitPose /\ [][EmptyWordNext]_vars

\* ------------------------------------------------------ the model download
\* the language codes of the model list, next to "none"
LangCodes == {"en", "fr"}

\* LIPSYNC2D_AP_Preferences.get_model_state (setextensionpath has created the
\* cache directory): "INSTALLED", "DOWNLOADING" or ""
get_model_state ==
  IF current_lang # "none"
  THEN IF current_lang \in model_dir THEN "INSTALLED"
       ELSE IF is_downloading THEN "DOWNLOADING"
       ELSE ""
  ELSE ""

\* poll of the bake operator through the animator's poll, for an active
\* armature in a scene
poll == get_model_state # "DOWNLOADING"

\* the user picks a language in the preferences
SetCurrentLang ==
  /\ \E l \in LangCodes \cup {"none"} : current_lang' = l
  /\ current_lang' # current_lang
  /\ UNCHANGED <<pc, props, scene_frame_start, is_downloading, worker_proc, alive,
                 timers, model_dir, installs, bake_vars, anim_vars, loop_vars,
                 hist_vars>>

\* variant: install_model without the test of current_lang
install_model_any_lang ==
  /\ is_downloading' = TRUE
  /\ LET w == [id |-> Len(installs) + 1, lang |-> current_lang]
     IN  worker_proc' = w /\ alive' = alive \cup {w}
  /\ timers' = timers + 1

\* install_model: nothing for current_lang "none"; otherwise the flag is set, a
\* worker process is started and check_worker_finished is registered
install_model ==
  IF current_lang = "none"
  THEN UNCHANGED <<is_downloading, worker_proc, alive, timers>>
  ELSE /\ is_downloading' = TRUE
       /\ LET w == [id |-> Len(installs) + 1, lang |-> current_lang]
          IN  worker_proc' = w /\ alive' = alive \cup {w}
       /\ timers' = timers + 1

\* LIPSYNC2D_OT_InstallModel.execute with install_model returning
InstallModel ==
  /\ Len(installs) < MaxInstalls
  /\ installs' = Append(installs, current_lang)
  /\ install_model
  /\ UNCHANGED <<pc, props, scene_frame_start, current_lang, model_dir, bake_vars,
                 anim_vars, loop_vars, hist_vars>>

\* LIPSYNC2D_OT_InstallModel.execute with subprocess.Popen raising: the flag is
\* already set, the operator reports the error and returns CANCELLED
InstallModelRaises ==
  /\ Len(installs) < MaxInstalls
  /\ current_lang # "none"
  /\ installs' = Append(installs, current_lang)
  /\ is_downloading' = TRUE
  /\ UNCHANGED <<pc, props, scene_frame_start, current_lang, worker_proc, alive,
                 timers, model_dir, bake_vars, anim_vars, loop_vars, hist_vars>>

\* a running worker extracts the model: the model directory appears in the
\* cache
WorkerExtracts ==
  /\ \E w \in alive : w.lang \notin model_dir /\ model_dir' = model_dir \cup {w.lang}
  /\ UNCHANGED <<pc, props, scene_frame_start, current_lang, is_downloading,
                 worker_proc, alive, timers, installs, bake_vars, anim_vars,
                 loop_vars, hist_vars>>

\* a worker process exits, having installed the model or not
WorkerExits ==
  /\ \E w \in alive : alive' = alive \ {w}
  /\ UNCHANGED <<pc, props, scene_frame_start, current_lang, is_downloading,
                 worker_proc, timers, model_dir, installs, bake_vars, anim_vars,
                 loop_vars, hist_vars>>

\* variant: the callback clears the state without polling the worker
check_worker_finished_no_poll ==
  IF worker_proc = NoWorker
  THEN timers' = timers - 1 /\ UNCHANGED <<worker_proc, is_downloading>>
  ELSE /\ worker_proc' = NoWorker
       /\ is_downloading' = FALSE
       /\ timers' = timers - 1

\* check_worker_finished, one timer firing: returning None removes the timer,
\* returning 1 keeps it
check_worker_finished ==
  IF worker_proc = NoWorker
  THEN timers' = timers - 1 /\ UNCHANGED <<worker_proc, is_downloading>>
  ELSE IF worker_proc \in alive
       THEN UNCHANGED <<worker_proc, is_downloading, timers>>
       ELSE /\ worker_proc' = NoWorker
            /\ is_downloading' = FALSE
            /\ timers' = timers - 1

CheckWorkerFinished ==
  /\ timers > 0
  /\ check_worker_finished
  /\ UNCHANGED <<pc, props, scene_frame_start, current_lang, alive, model_dir,
                 installs, bake_vars, anim_vars, loop_vars, hist_vars>>

\* the preferences as registered, an animator not yet set up
InitDownload ==
  /\ InitState
  /\ scene_frame_start = 0
  /\ props \in [in_between_threshold : {0},
                sil_threshold : {MaxThresholdTime},
                close_motion_duration : {0},
                prioritize_accuracy : {FALSE},
                pose : SilPoseConfigs]

DownloadNext ==
  \/ SetCurrentLang \/ InstallModel \/ InstallModelRaises
  \/ WorkerExtracts \/ WorkerExits \/ CheckWorkerFinished

SpecDownload == InitDownload /\ [][DownloadNext]_vars

\* the timers of bpy.app.timers fire when they are due
SpecDownloadFair == SpecDownload /\ WF_vars(CheckWorkerFinished)

\* ---------------------------------------------------------- the bake range
\* the frames the user enters as bake start and bake end (IntProperty, min=0)
BakeFrames == 0 .. MaxBake

\* get_bake_start, get_bake_end: the stored value, 0 when the key is not set
get_bake_start == IF bake_start = <<>> THEN 0 ELSE bake_start[1]

get_bake_end == IF bake_end = <<>> THEN 0 ELSE bake_end[1]

\* variant: set_bake_start that leaves the bake end where it is
set_bake_start_no_drag(value) ==
  /\ bake_end' = bake_end
  /\ bake_start' = <<value>>

set_bake_start(value) ==
  /\ bake_end' = IF value > get_bake_end THEN <<value>> ELSE bake_end
  /\ bake_start' = <<value>>

set_bake_end(value) ==
  /\ bake_start' = IF value < get_bake_start THEN <<value>> ELSE bake_start
  /\ bake_end' = <<value>>

\* the user edits Bake Start
SetBakeStart ==
  /\ pc = "idle"
  /\ \E v \in BakeFrames :
       /\ set_bake_start(v)
       /\ bake_call' = [setter |-> "start", value |-> v, crossed |-> v > get_bake_end]
  /\ UNCHANGED <<pc, props, scene_frame_start, dl_vars, scene_frame_end,
                 use_bake_range, frame_start, frame_end, scene_before, anim_vars,
                 loop_vars, hist_vars>>

\* the user edits Bake End
SetBakeEnd ==
  /\ pc = "idle"
  /\ \E v \in BakeFrames :
       /\ set_bake_end(v)
       /\ bake_call' = [setter |-> "end", value |-> v, crossed |-> v < get_bake_start]
  /\ UNCHANGED <<pc, props, scene_frame_start, dl_vars, scene_frame_end,
                 use_bake_range, frame_start, frame_end, scene_before, anim_vars,
                 loop_vars, hist_vars>>

\* the user ticks or unticks Use Range
ToggleUseBakeRange ==
  /\ pc = "idle"
  /\ use_bake_range' = ~use_bake_range
  /\ UNCHANGED <<pc, props, scene_frame_start, dl_vars, scene_frame_end, bake_start,
                 bake_end, frame_start, frame_end, bake_call, scene_before,
                 anim_vars, loop_vars, hist_vars>>

\* LIPSYNC2D_Timeline.get_frame_start, get_frame_end: the scene's frame range
get_frame_start == scene_frame_start

get_frame_end == scene_frame_end

\* scene.frame_start = value and scene.frame_end = value on a range
\* <<start, end>>: the host moves the other end along when the ends would cross
frame_start_set(range, value) == <<value, Max(range[2], value)>>

frame_end_set(range, value) == <<Min(range[1], value), value>>

set_bake_range ==
  IF ~use_bake_range
  THEN UNCHANGED <<frame_start, frame_end, scene_frame_start, scene_frame_end>>
  ELSE /\ frame_start' = <<get_frame_start>>
       /\ frame_end' = <<get_frame_end>>
       /\ LET r1 == frame_start_set(<<scene_frame_start, scene_frame_end>>,
                                    Max(0, get_bake_start))
              r2 == frame_end_set(r1, Max(get_bake_start, get_bake_end))
          IN  scene_frame_start' = r2[1] /\ scene_frame_end' = r2[2]

\* variant: reset_bake_range that restores the start only
reset_bake_range_start_only ==
  IF ~use_bake_range
  THEN UNCHANGED <<scene_frame_start, scene_frame_end>>
  ELSE LET r1 == frame_start_set(<<scene_frame_start, scene_frame_end>>,
                                 frame_start[1])
       IN  scene_frame_start' = r1[1] /\ scene_frame_end' = r1[2]

reset_bake_range ==
  IF ~use_bake_range
  THEN UNCHANGED <<scene_frame_start, scene_frame_end>>
  ELSE LET r1 == frame_start_set(<<scene_frame_start, scene_frame_end>>,
                                 frame_start[1])
           r2 == frame_end_set(r1, frame_end[1])
       IN  scene_frame_start' = r2[1] /\ scene_frame_end' = r2[2]

\* execute without a scene, an object, a sequence editor or a sound strip:
\* CANCELLED before set_bake_range
ExecuteCancelled ==
  /\ pc = "idle"
  /\ pc' = "cancelled"
  /\ scene_before' = <<scene_frame_start, scene_frame_end>>
  /\ bake_call' = NoCall
  /\ UNCHANGED <<props, scene_frame_start, dl_vars, scene_frame_end, bake_start,
                 bake_end, use_bake_range, frame_start, frame_end, anim_vars,
                 loop_vars, hist_vars>>

\* execute up to the mixdown: set_bake_range, extract_audio
ExecuteBegin ==
  /\ pc = "idle"
  /\ set_bake_range
  /\ pc' = "new"
  /\ scene_before' = <<scene_frame_start, scene_frame_end>>
  /\ bake_call' = NoCall
  /\ UNCHANGED <<props, dl_vars, bake_start, bake_end, use_bake_range, anim_vars,
                 loop_vars, hist_vars>>

\* execute when the mixdown left no file: reset_bake_range, CANCELLED
ExecuteNoFile ==
  /\ pc = "new" /\ scene_before # <<>>
  /\ reset_bake_range
  /\ pc' = "cancelled"
  /\ UNCHANGED <<props, dl_vars, bake_start, bake_end, use_bake_range, frame_start,
                 frame_end, bake_call, scene_before, anim_vars, loop_vars,
                 hist_vars>>

\* execute when the recognizer gives no "result": reset_bake_range, FINISHED
ExecuteNoResult ==
  /\ pc = "new" /\ scene_before # <<>>
  /\ reset_bake_range
  /\ pc' = "finished"
  /\ UNCHANGED <<props, dl_vars, bake_start, bake_end, use_bake_range, frame_start,
                 frame_end, bake_call, scene_before, anim_vars, loop_vars,
                 hist_vars>>

\* execute when get_model or vosk_recognize_voice raises: the operator does not
\* return and nothing is reset
ExecuteRaises ==
  /\ pc = "new" /\ scene_before # <<>>
  /\ pc' = "raised"
  /\ UNCHANGED <<cfg_vars, anim_vars, loop_vars, hist_vars>>

\* execute after auto_insert_keyframes: set_interpolation, cleanup,
\* reset_bake_range, the report, FINISHED
ExecuteEnd ==
  /\ pc = "done" /\ scene_before # <<>>
  /\ reset_bake_range
  /\ pc' = "finished"
  /\ UNCHANGED <<props, dl_vars, bake_start, bake_end, use_bake_range, frame_start,
                 frame_end, bake_call, scene_before, anim_vars, loop_vars,
                 hist_vars>>

\* an armature with its poses mapped, the operator not yet invoked; the scene
\* runs from frame 1 to frame MaxFrame
InitBake ==
  /\ pc = "idle"
  /\ InitFields
  /\ scene_frame_start = 1
  /\ props = [in_between_threshold |-> 0,
              sil_threshold |-> MaxThresholdTime,
              close_motion_duration |-> MaxThresholdTime,
              prioritize_accuracy |-> FALSE,
              pose |-> [v \in Visemes |->
                          CASE v = "sil" -> "A" [] v = "PP" -> "B" [] OTHER -> None]]

BakeNext ==
  \/ SetBakeStart \/ SetBakeEnd \/ ToggleUseBakeRange
  \/ ExecuteCancelled \/ ExecuteBegin \/ ExecuteNoFile \/ ExecuteNoResult
  \/ ExecuteRaises \/ Setup \/ InsertKeyframes \/ InsertOnVisemesStep
  \/ ExecuteEnd

SpecBake == InitBake /\ [][BakeNext]_vars

\* ------------------------------------------------ the last slot step, restated
\* The conditions of the three checks, from the slot's input and the scheduler
\* state before the step as recorded in last.
Stepped == last.outcome # None

LastHasAsset == props.pose[last.viseme] # None

LastUnskippable == Lower(last.viseme) \in UNSKIPPABLE_VISEMES

StepTooClose(s) ==
  s.prev_start >= 0 /\ s.frame - s.prev_start <= in_between_frame_threshold

LastTooClose == StepTooClose(last)

LastPriorityConflict ==
  /\ last.frame = last.prev_start
  /\ last.prev_viseme # None
  /\ get_viseme_priority(last.viseme) > get_viseme_priority(last.prev_viseme)

LastRedundantPose ==
  /\ last.prev_viseme \notin {None, "sil"}
  /\ props.pose[last.prev_viseme] = props.pose[last.viseme]

\* slots of the current word that were emitted
EmitIdx == {i \in 1 .. Len(word_log) : word_log[i].outcome = "emit"}

\* i and j are consecutive emitted slots of the current word
Consecutive(i, j) ==
  /\ i \in EmitIdx /\ j \in EmitIdx /\ i < j
  /\ \A k \in (i + 1) .. (j - 1) : k \notin EmitIdx

\* the values keyed at frame f, over all fcurves
KeyAt(f) == {k[2] : k \in {x \in UNION {keyframes[c] : c \in DOMAIN keyframes} : x[1] = f}}

\* ------------------------------------------------------------------ claims

\* C1: pose-asset scheduler with prioritize_accuracy = false: a slot whose frame
\* is within in_between_frame_threshold of a previous keyframe frame >= 0 is
\* never emitted, whatever its viseme.
C1_TooCloseNeverEmitted ==
  (Stepped /\ ~props.prioritize_accuracy /\ LastTooClose) => last.outcome # "emit"

C1_Witness ==
  /\ Stepped /\ ~props.prioritize_accuracy /\ LastTooClose
  /\ LastUnskippable /\ last.outcome = "spacing"

\* C2 as stated: with prioritize_accuracy = true a too-close slot is skipped by
\* the spacing check only if its viseme is not unskippable, and a too-close slot
\* with an unskippable viseme (and a configured asset) is always emitted.
C2_AsStated ==
  (Stepped /\ LastHasAsset /\ props.prioritize_accuracy /\ LastTooClose)
    => /\ (last.outcome = "spacing" => ~LastUnskippable)
       /\ (LastUnskippable => last.outcome = "emit")

\* C2 amended: with prioritize_accuracy = true the spacing check skips a
\* too-close slot only if its viseme is not unskippable; a too-close slot with
\* an unskippable viseme is emitted unless the priority-conflict check or the
\* redundancy check skips it first.
C2_UnskippableExempt ==
  (Stepped /\ LastHasAsset /\ props.prioritize_accuracy /\ LastTooClose)
    => /\ (last.outcome = "spacing" => ~LastUnskippable)
       /\ (LastUnskippable /\ ~LastPriorityConflict /\ ~LastRedundantPose
             => last.outcome = "emit")
       /\ (LastUnskippable /\ last.outcome # "emit"
             => last.outcome \in {"priority", "redundant"})

C2_Witness ==
  /\ Stepped /\ props.prioritize_accuracy /\ LastTooClose
  /\ LastUnskippable /\ last.outcome = "emit"

\* Two visemes of one word with priorities 1 and 3 on the same slot frame: the
\* step just taken is the second one's, the first one's event is the previous
\* keyframe.
Tie13 ==
  /\ Stepped /\ LastHasAsset
  /\ \E i \in 1 .. (Len(word_log) - 1) : word_log[i].outcome = "emit"
  /\ last = word_log[Len(word_log)]
  /\ last.frame = last.prev_start
  /\ {get_viseme_priority(last.viseme), get_viseme_priority(last.prev_viseme)} = {1, 3}

InEffect(v) ==
  /\ previous_viseme = v
  /\ previous_start = last.frame
  /\ KeyAt(last.frame) = {props.pose[v]}

C4_PriorityConflictExact ==
  (Stepped /\ LastHasAsset) => (last.outcome = "priority" <=> LastPriorityConflict)

C4_Witness ==
  /\ Stepped /\ last.outcome = "priority"
  /\ last.frame = last.prev_start
  /\ get_viseme_priority(last.viseme) > get_viseme_priority(last.prev_viseme)

\* C5 as stated: two consecutive emitted viseme events of one word never share
\* a frame unless a priority skip occurred between them, and they are more than
\* in_between_frame_threshold apart whenever neither was too close.
C5_AsStated ==
  \A i, j \in 1 .. Len(word_log) :
    Consecutive(i, j) =>
      /\ (\A k \in (i + 1) .. (j - 1) : word_log[k].outcome # "priority")
           => word_log[j].frame # word_log[i].frame
      /\ (~StepTooClose(word_log[i]) /\ ~StepTooClose(word_log[j]))
           => word_log[j].frame - word_log[i].frame > in_between_frame_threshold

\* C5 amended: two consecutive emitted viseme events e1, e2 of one word are
\* more than in_between_frame_threshold frames apart (so never on one frame
\* when the threshold is >= 0), unless prioritize_accuracy is true and e2's
\* viseme is unskippable: such an e2 may be as close as the same frame.
C5_Spacing ==
  \A i, j \in 1 .. Len(word_log) :
    Consecutive(i, j) =>
      \/ word_log[j].frame - word_log[i].frame > in_between_frame_threshold
      \/ /\ props.prioritize_accuracy
         /\ Lower(word_log[j].viseme) \in UNSKIPPABLE_VISEMES

C5_Witness ==
  \E i, j \in 1 .. Len(word_log) :
    /\ Consecutive(i, j)
    /\ in_between_frame_threshold >= 1
    /\ word_log[j].frame - word_log[i].frame > in_between_frame_threshold

\* C6: over a run on words in time order previous_start never decreases: every
\* emitted viseme event is at or after the one emitted before it, across word
\* boundaries too.
C6_PreviousStartMonotone == [][previous_start' >= previous_start]_vars

C6_Witness ==
  /\ Stepped /\ last.word >= 1 /\ last.slot = 0 /\ last.outcome = "emit"
  /\ last.prev_start >= 0 /\ previous_start = last.frame
  /\ last.frame > last.prev_start

\* C7: one slot step: a skipped slot (no asset, priority conflict, redundancy,
\* spacing) changes neither previous_start nor previous_viseme and keys
\* nothing; an emitted slot keys its pose once at slot_frame and sets
\* previous_start = slot_frame, previous_viseme = its viseme.
C7_SlotStepEffect ==
  [][pc = "slots" =>
       LET frame == word_start_frame
                    + Round(viseme_index * (word_end_frame - word_start_frame),
                            visemes_data.visemes_len)
           s == last'
       IN  /\ s.frame = frame
           /\ s.outcome \in {"no_asset", "priority", "redundant", "spacing", "emit"}
           /\ (s.outcome = "no_asset" <=> props.pose[s.viseme] = None)
           /\ IF s.outcome # "emit"
              THEN UNCHANGED <<previous_start, previous_viseme, keyframes,
                               inserted_keyframes>>
              ELSE /\ previous_start' = frame
                   /\ previous_viseme' = s.viseme
                   /\ inserted_keyframes' = inserted_keyframes + NumFCurves
                   /\ \A c \in DOMAIN keyframes :
                        keyframes'[c] = {k \in keyframes[c] : k[1] # frame}
                                          \cup {<<frame, props.pose[s.viseme]>>}]_vars

C7_Witness ==
  /\ Stepped /\ last.outcome = "emit" /\ last.prev_viseme # None
  /\ previous_start = last.frame /\ previous_viseme = last.viseme
  /\ KeyAt(last.frame) = {props.pose[last.viseme]}

\* every slot of the current word so far has the same configured pose asset
WordSameValue ==
  /\ word_log # <<>>
  /\ props.pose[word_log[1].viseme] # None
  /\ \A i \in 1 .. Len(word_log) :
       props.pose[word_log[i].viseme] = props.pose[word_log[1].viseme]

\* C8 as stated: a word whose visemes all map to the same backend value emits
\* at most one viseme event, the first slot's if any, for every viseme sequence
\* (the silence viseme included) and every carried-in scheduler state.
C8_AsStated ==
  WordSameValue => Cardinality(EmitIdx) <= 1 /\ EmitIdx \subseteq {1}

\* C8 amended: a word whose visemes all map to the same backend value and none
\* of which is the silence viseme emits at most one viseme event; when no
\* viseme was emitted before the word (fresh scheduler state) that event is the
\* first slot's.
C8_SameValueOneEvent ==
  (WordSameValue /\ \A i \in 1 .. Len(word_log) : word_log[i].viseme # "sil")
    => /\ Cardinality(EmitIdx) <= 1
       /\ (word_log[1].prev_viseme = None => EmitIdx = {1})

C8_Witness ==
  /\ Len(word_log) >= 2 /\ WordSameValue
  /\ \A i \in 1 .. Len(word_log) : word_log[i].viseme # "sil"
  /\ word_log[1].viseme # word_log[2].viseme
  /\ word_log[2].frame - word_log[1].frame > in_between_frame_threshold
  /\ EmitIdx = {1} /\ word_log[2].outcome = "redundant"

\* C9: the redundancy check skips a slot whose pose asset is that of the
\* previous emitted viseme, except that with no previous viseme or with the
\* silence viseme as previous viseme it never skips.
C9_RedundancyCheck ==
  (Stepped /\ LastHasAsset)
    => /\ (LastRedundantPose => last.outcome \in {"priority", "redundant"})
       /\ (last.prev_viseme \in {None, "sil"} => last.outcome # "redundant")
       /\ (last.outcome = "redundant" => LastRedundantPose)

C9_Witness ==
  /\ Stepped /\ last.outcome = "redundant" /\ last.viseme # last.prev_viseme
  /\ ~LastTooClose

\* C10: the checks run in the order priority conflict, redundancy, spacing and
\* the first that says skip decides: the slot is emitted iff none of them does.
C10_CheckOrder ==
  (Stepped /\ LastHasAsset)
    => last.outcome =
         (IF LastPriorityConflict THEN "priority"
          ELSE IF LastRedundantPose THEN "redundant"
          ELSE IF LastTooClose /\ ~(props.prioritize_accuracy /\ LastUnskippable)
               THEN "spacing"
          ELSE "emit")

C10_Witness ==
  /\ Stepped /\ LastPriorityConflict /\ LastRedundantPose /\ LastTooClose
  /\ last.outcome = "priority"

\* the run is a sprite-sheet run
IsSprite == pc \in {"sps_new", "sps_word", "sps_slots", "sps_done", "sps_raised"}

\* the value keyed for viseme v: its pose asset or its sprite index
Payload(v) == IF IsSprite THEN props.viseme[v] ELSE props.pose[v]

\* a silence value exists (the sprite-sheet backend does not test it)
SilConfigured == IsSprite \/ props.pose["sil"] # None

\* a word is in progress: insert_silences has run for it
InWord == pc \in {"slots", "sps_slots"}

\* the silence frames of the last insert_silences call, in the order keyed
SilFrames == sil_log.ends \o sil_log.first

\* the last event of the current word at the frame of its i-th event
LastEventAt(i) ==
  events[CHOOSE j \in i .. Len(events) :
           /\ events[j].frame = events[i].frame
           /\ \A k \in (j + 1) .. Len(events) : events[k].frame # events[i].frame]

FirstOfTwoWithGap ==
  /\ pc = "slots" /\ sil_log.word = 0 /\ ~is_last_word
  /\ props.pose["sil"] # None
  /\ delay_until_next_word > silence_frame_threshold

\* C12 as stated: for a two-word utterance with delay_until_next_word >
\* silence_frame_threshold exactly two silence events are emitted between the
\* words, each at a frame strictly between the first word's corrected end frame
\* and the second word's start frame, for all thresholds and close motion
\* durations >= 0.
C12_AsStated ==
  FirstOfTwoWithGap =>
    /\ Len(sil_log.ends) = 2
    /\ \A i \in 1 .. Len(sil_log.ends) :
         /\ sil_log.corrected < sil_log.ends[i]
         /\ sil_log.ends[i] < next_word_frame_start

\* insert_silences has just run for a word that is not the last one and whose
\* end-of-word silence is triggered
NonLastTriggered ==
  /\ pc = "slots" /\ viseme_index = 0 /\ ~is_last_word
  /\ delay_until_next_word > silence_frame_threshold

\* clamp(x, min = 1, max = close_motion_duration), the minimum winning
SmoothOffset ==
  LET x == delay_until_next_word - in_between_frame_threshold
      m == IF x <= close_motion_duration THEN x ELSE close_motion_duration
  IN  IF m >= 1 THEN m ELSE 1

RestOffset ==
  delay_until_next_word
    - (IF in_between_frame_threshold >= 1 THEN in_between_frame_threshold ELSE 1)

\* C14 as stated: for a non-last word with end-of-word silence triggered
\* exactly two silence events are emitted, the smooth close at corrected end +
\* clamp(delay - in_between, 1, close_motion_duration) and the rest at
\* corrected end + delay - max(1, in_between).
C14_AsStated ==
  NonLastTriggered =>
    sil_log.ends = <<sil_log.corrected + SmoothOffset, sil_log.corrected + RestOffset>>

\* C14 amended: the same, when a silence pose is configured; without a silence
\* pose no silence event is emitted. The events are keyed with the silence
\* pose, in this order, before the word's viseme events.
C14_TwoEndSilences ==
  NonLastTriggered =>
    IF props.pose["sil"] = None
    THEN sil_log.ends = <<>> /\ events = <<>>
    ELSE /\ sil_log.ends = <<sil_log.corrected + SmoothOffset,
                              sil_log.corrected + RestOffset>>
         /\ events = EventsOf("sil", sil_log.ends \o sil_log.first)
         /\ \A i \in 1 .. 2 : KeyAt(sil_log.ends[i]) = {props.pose["sil"]}

C14_Witness ==
  /\ NonLastTriggered /\ props.pose["sil"] # None
  /\ delay_until_next_word - in_between_frame_threshold > close_motion_duration
  /\ close_motion_duration > 1
  /\ sil_log.ends[1] = sil_log.corrected + close_motion_duration
  /\ sil_log.ends[2] = sil_log.corrected + delay_until_next_word - 1
  /\ KeyAt(sil_log.ends[1]) = {props.pose["sil"]}

\* insert_silences has just run for the last word of the utterance
LastWordSilenced == pc = "slots" /\ viseme_index = 0 /\ is_last_word

\* C15 as stated: for the last word of the utterance exactly one end-of-word
\* silence event is emitted, at corrected end + close_motion_duration.
C15_AsStated ==
  LastWordSilenced => sil_log.ends = <<sil_log.corrected + close_motion_duration>>

\* C15 amended: the same, when a silence pose is configured; without a silence
\* pose no silence event is emitted for the last word.
C15_LastWordSilence ==
  LastWordSilenced =>
    IF props.pose["sil"] = None
    THEN sil_log.ends = <<>> /\ events = <<>>
    ELSE /\ sil_log.ends = <<sil_log.corrected + close_motion_duration>>
         /\ events = EventsOf("sil", sil_log.ends \o sil_log.first)
         /\ KeyAt(sil_log.corrected + close_motion_duration) = {props.pose["sil"]}

C15_Witness ==
  /\ LastWordSilenced /\ props.pose["sil"] # None
  /\ close_motion_duration = 2 /\ delay_until_next_word <= silence_frame_threshold
  /\ sil_log.ends = <<sil_log.corrected + 2>>
  /\ KeyAt(sil_log.corrected + 2) = {props.pose["sil"]}

\* the frame of the last slot of the word in progress, from the word's fields
WordCorrectedEnd ==
  word_start_frame
    + Round((word_end_frame - word_start_frame) * (visemes_data.visemes_len - 1),
            visemes_data.visemes_len)

C18_CorrectedEndFrame ==
  LET n == visemes_data.visemes_len
      span == word_end_frame - word_start_frame
  IN  /\ pc = "slots" =>
           sil_log.corrected = (IF n = 1 THEN word_start_frame
                                ELSE word_start_frame + Round(span * (n - 1), n))
      /\ (Stepped /\ last.word = sil_log.word /\ last.slot = n - 1)
           => last.frame = sil_log.corrected

C18_Witness ==
  /\ Stepped /\ last.word = sil_log.word
  /\ visemes_data.visemes_len = 3 /\ last.slot = 2
  /\ word_end_frame - word_start_frame = 2
  /\ last.frame = word_start_frame + 1 /\ sil_log.corrected = last.frame

\* the viseme events of the current word, in emission order
IsVisemeEvent(e) == e.kind = "viseme"

VisemeEvents == SelectSeq(events, IsVisemeEvent)

VisemeEvent(v, frame) == [kind |-> "viseme", viseme |-> v, frame |-> frame]

\* both slots of the scenario's word are done, with visemes v1 and v2 that have
\* two different pose assets
ScenarioDone(v1, v2) ==
  /\ Len(word_log) = 2
  /\ word_log[1].viseme = v1 /\ word_log[2].viseme = v2
  /\ props.pose[v1] # None /\ props.pose[v2] # None
  /\ props.pose[v1] # props.pose[v2]

\* C19: a first word with visemes [P, A] (two different pose assets),
\* visemes_parts = 12, word_frame_start = 0 and fresh scheduler state has its
\* slots at frames 0 and 12; with thresholds of 0 frames it emits P at 0 and A
\* at 12; with an in-between threshold of 15 frames (any threshold >= 12) it
\* emits only P at 0, A being skipped by the spacing check; a second viseme of
\* the unskippable set is emitted at 12 all the same when prioritize_accuracy
\* is true, and skipped when it is false.
C19_Scenario ==
  /\ \A i \in 1 .. Len(word_log) : word_log[i].frame = 12 * (i - 1)
  /\ (ScenarioDone("PP", "aa") /\ in_between_frame_threshold = 0)
       => VisemeEvents = <<VisemeEvent("PP", 0), VisemeEvent("aa", 12)>>
  /\ (ScenarioDone("PP", "aa") /\ in_between_frame_threshold >= 12)
       => /\ VisemeEvents = <<VisemeEvent("PP", 0)>>
          /\ word_log[2].outcome = "spacing"
  /\ \A v1 \in Visemes :
       (ScenarioDone(v1, "PP") /\ in_between_frame_threshold >= 12)
         => VisemeEvents = (IF props.prioritize_accuracy
                            THEN <<VisemeEvent(v1, 0), VisemeEvent("PP", 12)>>
                            ELSE <<VisemeEvent(v1, 0)>>)

C19_Witness ==
  /\ ScenarioDone("PP", "aa") /\ in_between_frame_threshold = 15
  /\ word_start_frame = 0 /\ word_log[1].prev_start = -1
  /\ word_log[2].frame = 12 /\ word_log[2].outcome = "spacing"
  /\ VisemeEvents = <<VisemeEvent("PP", 0)>>
  /\ KeyAt(12) = {}

\* C13: in both backends end-of-word silence is triggered for a word iff its
\* delay_until_next_word is strictly greater than silence_frame_threshold or
\* the word is the last one; the triggered word gets end-of-word silence events
\* (when a silence value exists), a non-last word with a delay <= the threshold
\* gets none.
C13_EndSilenceTrigger ==
  InWord =>
    LET triggered == delay_until_next_word > silence_frame_threshold \/ is_last_word
    IN  /\ sil_log.at_end <=> triggered
        /\ SilConfigured => (sil_log.ends # <<>> <=> triggered)
        /\ ~triggered => sil_log.ends = <<>>

C13_Witness ==
  /\ InWord /\ SilConfigured /\ ~is_last_word
  /\ delay_until_next_word = silence_frame_threshold
  /\ silence_frame_threshold > 0
  /\ sil_log.ends = <<>> /\ ~sil_log.at_end

\* twice max(timeline_frame_start, word_frame_start - max(1, close / 2))
TwiceFirstSilence ==
  LET a == 2 * scene_frame_start
      b == 2 * word_start_frame
             - (IF close_motion_duration >= 2 THEN close_motion_duration ELSE 2)
  IN  IF a >= b THEN a ELSE b

\* C16 as stated: for the first word and only for it one silence event is
\* emitted, at max(timeline_frame_start, word_frame_start - max(1,
\* close_motion_duration / 2)), never earlier than timeline_frame_start.
C16_AsStated ==
  InWord =>
    IF sil_log.word = 0
    THEN /\ Len(sil_log.first) = 1
         /\ 2 * sil_log.first[1] = TwiceFirstSilence
         /\ sil_log.first[1] >= scene_frame_start
    ELSE sil_log.first = <<>>

\* C16 amended: only the first word gets a start silence, never earlier than
\* timeline_frame_start. The pose-asset backend emits it when a silence pose is
\* configured, at max(timeline_frame_start, word_frame_start - max(1,
\* close_motion_duration / 2)) truncated to an integer frame; the sprite-sheet
\* backend emits it at max(timeline_frame_start, word_frame_start - max(1,
\* in_between_frame_threshold)).
C16_StartSilence ==
  InWord =>
    IF sil_log.word # 0 \/ ~SilConfigured THEN sil_log.first = <<>>
    ELSE /\ Len(sil_log.first) = 1
         /\ sil_log.first[1] >= scene_frame_start
         /\ sil_log.first[1] = events[Len(SilFrames)].frame
         /\ IF IsSprite
            THEN LET b == word_start_frame
                            - (IF in_between_frame_threshold >= 1
                               THEN in_between_frame_threshold ELSE 1)
                 IN  sil_log.first[1] = (IF scene_frame_start >= b
                                         THEN scene_frame_start ELSE b)
            ELSE /\ 2 * sil_log.first[1] <= TwiceFirstSilence
                 /\ TwiceFirstSilence < 2 * sil_log.first[1] + 2

C16_Witness ==
  /\ pc = "slots" /\ sil_log.word = 0 /\ props.pose["sil"] # None
  /\ close_motion_duration = 3 /\ word_start_frame = 3
  /\ sil_log.first = <<1>>
  /\ viseme_index = 0 /\ KeyAt(1) = {props.pose["sil"]}

\* the run is configured with a negative threshold
NegativeThreshold ==
  IF IsSprite
  THEN props.sps_in_between_threshold < 0 \/ props.sps_sil_threshold < 0
  ELSE \/ props.in_between_threshold < 0
       \/ props.sil_threshold < 0
       \/ props.close_motion_duration < 0

\* C20 as stated: a run configured with a negative threshold fails before any
\* word is processed: it emits no keyframe event, viseme or silence.
C20_AsStated ==
  NegativeThreshold =>
    /\ events = <<>>
    /\ inserted_keyframes = 0
    /\ \A c \in DOMAIN keyframes : keyframes[c] = {}


\* the word being processed ends before it starts
MalformedWord == pc \in {"slots", "word", "done"} /\ word_end_frame < word_start_frame

\* C21 as stated: when a word has end_time < start_time, processing halts at
\* that word: no event of any kind is emitted for it (no silence event, no
\* viseme event, no count) and the events of earlier words are kept
C21_AsStated ==
  MalformedWord => events = <<>> /\ last.word # word_index


\* the viseme has no pose asset (pose-asset run) / no sprite index (sprite-sheet
\* run)
NoEntry(v) == IF IsSprite THEN props.viseme[v] = UnsetSprite ELSE props.pose[v] = None

\* C22 as stated: a slot whose viseme has no backend entry never aborts the
\* run and yields no event for that slot
C22_AsStated ==
  Stepped /\ NoEntry(last.viseme) => last.outcome \notin {"emit", "raised"}


\* the run is over and had one word: events holds every event of the run
OneWordRunDone == pc \in {"done", "sps_done"} /\ word_index = 0

\* C23 as stated: after a run the inserted count equals the number of keyframe
\* events emitted during the run (viseme events and silence events, the
\* start-of-utterance silence included), each counted once per written channel
C23_AsStated ==
  OneWordRunDone => inserted_keyframes = NumFCurves * Len(events)


\* insert_keyframes has just returned for a word without visemes
EmptyWordDone ==
  pc \in {"word", "done"} /\ sil_log.word >= 0 /\ visemes_data.visemes_len = 0

\* C24 as stated: a word with zero phonemes produces no scheduling: no viseme
\* event and no silence event is emitted for it and the scheduler state is
\* unchanged by it, whether it is a first, middle or last word
C24_AsStated ==
  EmptyWordDone => events = <<>>


\* the event applied last in the current word
LastEvent == events[Len(events)]

LastSameAsPrevious ==
  /\ IsSprite /\ Stepped
  /\ last.prev_viseme \notin {None, "sil"}
  /\ last.viseme = last.prev_viseme

\* C26 as stated: the sprite-sheet backend inserts no keyframe for a slot whose
\* viseme is redundant with the previously keyframed viseme (the same viseme,
\* the previous one known and not the silence)
C26_AsStated ==
  LastSameAsPrevious => last.outcome # "emit"


\* the sprite-sheet insert_silences has just run for the last word
SpsLastWordSilenced == pc = "sps_slots" /\ viseme_index = 0 /\ is_last_word

\* C27 as stated: for the last word the sprite-sheet backend performs exactly
\* one end-of-word silence insertion per channel and increments the inserted
\* count exactly once per channel for it
C27_AsStated ==
  SpsLastWordSilenced =>
    /\ Len(sil_log.ends) = 1
    /\ word_index = 0 => inserted_keyframes = NumFCurves


\* the last sprite-sheet slot was keyed and a viseme keyframe at a frame >= 0
\* came before it
SpsEmitAfterKey ==
  IsSprite /\ Stepped /\ last.outcome = "emit" /\ last.prev_start >= 0

\* C28: in the sprite-sheet backend the effective in-between threshold is at
\* least 1 frame: a viseme keyframe emitted after one at a frame >= 0 lies more
\* than max(1, configured threshold) frames after the previously emitted one,
\* and two viseme keyframes of a word never land on the same or on adjacent
\* frames
C28_SpriteSpacing ==
  /\ pc \in {"sps_word", "sps_slots", "sps_done"} => in_between_frame_threshold >= 1
  /\ SpsEmitAfterKey =>
       /\ last.frame - last.prev_start
            > Max(1, time_to_frame(props.sps_in_between_threshold))
       /\ last.frame - last.prev_start >= 2
  /\ IsSprite =>
       \A i, j \in 1 .. Len(VisemeEvents) :
         i < j => VisemeEvents[j].frame - VisemeEvents[i].frame >= 2

\* a configured threshold of 0 frames, and a viseme keyed two frames after the
\* previous one
C28_Witness ==
  /\ SpsEmitAfterKey
  /\ time_to_frame(props.sps_in_between_threshold) = 0
  /\ last.frame - last.prev_start = 2
  /\ Len(VisemeEvents) >= 2


TwoEndSilences == NonLastTriggered /\ Len(sil_log.ends) = 2

\* C30 as stated: for a non-last word with end-of-word silence the two silence
\* events are in frame order and stay before the next word: the smooth-close
\* frame is <= the rest frame, and neither is at or after the next word's
\* word_frame_start
C30_AsStated ==
  TwoEndSilences =>
    /\ sil_log.ends[1] <= sil_log.ends[2]
    /\ sil_log.ends[1] < next_word_frame_start
    /\ sil_log.ends[2] < next_word_frame_start


\* insert_silences has just run for the current word
WordSilenced == InWord /\ viseme_index = 0 /\ sil_log.word = word_index

\* C31 as stated: every end-of-word silence event of a word has a frame >= the
\* word's corrected end frame, for all delays and thresholds >= 0
C31_AsStated ==
  WordSilenced =>
    \A i \in 1 .. Len(sil_log.ends) : sil_log.ends[i] >= sil_log.corrected


\* C32: for a word with visemes_parts >= 0 the slot frames are non-decreasing
\* in the slot index and every viseme event emitted for the word has a frame in
\* [word_frame_start, corrected_end_frame]
C32_SlotFrames ==
  visemes_data.parts_num >= 0 =>
    /\ \A i, j \in 1 .. Len(word_log) :
         i < j => word_log[i].frame <= word_log[j].frame
    /\ \A i \in 1 .. Len(VisemeEvents) :
         /\ word_start_frame <= VisemeEvents[i].frame
         /\ VisemeEvents[i].frame
              <= get_corrected_end_frame(word_start_frame, visemes_data)

\* a word of several slots whose last slot was keyed on the corrected end
\* frame, after the word's start frame
C32_Witness ==
  /\ pc \in {"word", "done"} /\ Len(word_log) >= 2
  /\ Len(VisemeEvents) >= 2
  /\ last.outcome = "emit"
  /\ last.frame = get_corrected_end_frame(word_start_frame, visemes_data)
  /\ last.frame > word_start_frame


\* setup has returned and no word has been processed yet
AfterSetup == pc = "word" /\ word_index = 0

\* the last slot was decided in the state setup leaves, for a viseme that has
\* a pose asset, at a frame >= 0
FirstAssetSlot ==
  /\ Stepped /\ LastHasAsset /\ last.frame >= 0
  /\ last.prev_start = -1 /\ last.prev_viseme = None

\* C33: after setup the scheduler state is fresh (previous_start = -1,
\* previous_viseme = None, inserted count 0), and from that state the first
\* slot of the run that has a configured asset and a frame >= 0 is always
\* emitted: no priority, redundancy or spacing check skips it
C33_FirstSlotEmitted ==
  /\ AfterSetup =>
       previous_start = -1 /\ previous_viseme = None /\ inserted_keyframes = 0
  /\ pc # "new" /\ previous_viseme = None => previous_start = -1
  /\ FirstAssetSlot => last.outcome = "emit"

\* the first keyed slot of a run came after a slot without pose asset, on
\* frame 0, with an in-between threshold of at least one frame
C33_Witness ==
  /\ FirstAssetSlot /\ last.outcome = "emit"
  /\ last.frame = 0 /\ in_between_frame_threshold >= 1
  /\ slots_done >= 2

\* the worker install_model started last has exited and the callback has not
\* yet seen it
WorkerExited == worker_proc # NoWorker /\ worker_proc \notin alive

\* a callback that stops polling while worker_proc is set
CallbackStops == timers' < timers /\ worker_proc # NoWorker

C35_AsStated == alive # {} => is_downloading

\* the last call of install_model, made with current_lang "none", found a
\* download running
NoneInstallDuringDownload ==
  /\ Len(installs) = 2 /\ installs[1] # "none" /\ installs[2] = "none"
  /\ worker_proc # NoWorker /\ worker_proc.id = 1 /\ worker_proc \in alive

\* C36: a call of install_model with current_lang "none" starts no worker,
\* registers no timer and leaves is_downloading and worker_proc as they were
C36_NoneIsNoop ==
  [][(installs' # installs /\ current_lang = "none")
     => UNCHANGED <<is_downloading, worker_proc, alive, timers>>]_vars

\* install_model was called with "none" while the worker of an earlier call
\* was running: the flag, the worker and its one timer are still there
C36_Witness ==
  NoneInstallDuringDownload /\ is_downloading /\ alive = {worker_proc} /\ timers = 1

\* C37: whenever is_downloading is True and a download worker is running, the
\* animator's poll returns False
C37_AsStated == (is_downloading /\ alive # {}) => ~poll

\* the operator has returned FINISHED or CANCELLED
Returned == pc \in {"finished", "cancelled"}

\* the range set_bake_range gives the scene for the bake
BakeRange ==
  frame_end_set(frame_start_set(scene_before, Max(0, get_bake_start)),
                Max(get_bake_start, get_bake_end))

\* C38: when the bake operator has returned FINISHED or CANCELLED, the scene's
\* frame_start and frame_end are what they were before the execution; with
\* use_bake_range false no step of the execution changes them
C38_RangeRestored ==
  /\ Returned => <<scene_frame_start, scene_frame_end>> = scene_before
  /\ (scene_before # <<>> /\ ~use_bake_range)
     => (<<scene_frame_start, scene_frame_end>> = scene_before
         /\ frame_start = <<>> /\ frame_end = <<>>)

\* a bake with use_bake_range set that baked in another range than the
\* scene's, inserted keyframes and returned FINISHED
C38_Witness ==
  /\ pc = "finished" /\ use_bake_range /\ inserted_keyframes > 0
  /\ frame_start = <<scene_before[1]>> /\ frame_end = <<scene_before[2]>>
  /\ BakeRange[1] # scene_before[1] /\ BakeRange[2] # scene_before[2]

\* C39: after any sequence of set_bake_start and set_bake_end calls, bake_start
\* is at most bake_end
C39_Ordered == get_bake_start <= get_bake_end

\* set_bake_start was called with a value above the bake end and took the bake
\* end along
C39_Witness ==
  /\ bake_call.setter = "start" /\ bake_call.crossed
  /\ bake_start = <<bake_call.value>> /\ bake_end = <<bake_call.value>>

====
